---------------------------- MODULE Spec2Model ----------------------------
(***************************************************************************)
(* A model of ceph/rados/core_workflows.py (class RadosOrchestrator).      *)
(*                                                                         *)
(* One call of one method is in progress at a time (the code is            *)
(* synchronous).  A call starts from pc = "idle", runs its loop iterations *)
(* at pc = "loop" and ends at pc = "done" with `result`; Finish hands the  *)
(* result to the caller and goes back to "idle".  The cluster is the       *)
(* environment: what a command returns is chosen with \E at the step that  *)
(* runs the command.                                                       *)
(*                                                                         *)
(* Python values are sequences of strings, so that any two of them can be  *)
(* compared: True is <<"True">>, None is <<"None">>, a decoded JSON        *)
(* document is the sequence of its characters without the whitespace       *)
(* between tokens ({} is <<"{", "}">>).                                     *)
(***************************************************************************)
EXTENDS Integers, Sequences, FiniteSets, TLC

VARIABLES
    op,            \* the method being called, "none" when idle
    pc,            \* "idle", "loop" or "done"
    result,        \* how the call ended: [kind, val]
    raw,           \* raw output of the command the structured parse read
    transport,     \* "ok" or "fail": did the last command reach its target
    target,        \* run_ceph_command: "client" (client_exec) or "node"
    now,           \* wall clock in seconds since the call started
    cmdTime,       \* seconds of `now` spent inside commands (not sleeping)
    end_time,      \* the deadline of the wait loop
    fetches,       \* fetches made inside the wait loop
    sleeps,        \* interval sleeps made inside the wait loop
    flag,          \* the loop's success flag: "unbound", "True" or "False"
    waitOutcome,   \* "none", "success", "timeout" or "raise"
    observed,      \* the state most recently fetched by the loop
                   \* (restart_daemon_services: how many daemons it listed)
    lastFetch,     \* what the loop's last fetch returned: "none" (no fetch
                   \* yet), "fail" (None), "blank" ({}) or "report"
    action,        \* change_osd_state: the requested action
    retry,         \* host_maintenance_enter/exit: the retry argument
    iteration,     \* host_maintenance_enter/exit: the loop counter
    osd_info,      \* verify_reweight: kb_used per OSD before the re-weight
    osd_info_end,  \* verify_reweight: kb_used per OSD after the wait
    affected_osds, \* verify_reweight: the re-weighted OSDs
    svc,           \* restart_daemon_services: index of the service waited for
    daemon_services, \* restart_daemon_services: the services of the daemon
    daemon_map,    \* restart_daemon_services: start time captured per daemon
    recoveryCfg,   \* cluster: recovery thread settings, "default" or "set"
    cmds,          \* state-changing commands issued by the call, in order,
                   \* each the sequence of its words
    restarted,     \* restart_daemon_services: the daemons some fetch of the
                   \* wait showed restarted and not stopped
    kwargs,        \* the arguments of the call, for the methods below
    cluster,       \* what the cluster holds that the call asks about
    calls,         \* detete_pool: calls made in a row on the same pool
    prev_result,   \* detete_pool: the result of the call before this one
    obj_size,      \* run_concurrent_io: the obj_size argument
    tasks,         \* run_concurrent_io: per spawned task, its loop counter
                   \* and its offset variable
    written,       \* run_concurrent_io: the writes made, <<task, i, offset>>
    session        \* the fields __init__ sets: node, ceph_cluster, client,
                   \* rhbuild

vars == <<op, pc, result, raw, transport, target, now, cmdTime, end_time, fetches,
          sleeps, flag, waitOutcome, observed, lastFetch, action, retry,
          iteration, osd_info, osd_info_end, affected_osds, svc, daemon_services,
          daemon_map, recoveryCfg, cmds, restarted, kwargs, cluster, calls,
          prev_result, obj_size, tasks, written, session>>

----------------------------------------------------------------------------
(* Bounds of the model *)

\* longest raw command output that is enumerated
MaxLen == 3
\* most seconds the commands of one call take in total (sleeps excluded)
MaxCmdTime == 1

----------------------------------------------------------------------------
(* Python values and outcomes *)

PyTrue == <<"True">>
PyFalse == <<"False">>
PyNone == <<"None">>
EmptyDoc == <<"{", "}">>

Return(v) == [kind |-> "return", val |-> v]
Raise(e) == [kind |-> "raise", val |-> <<e>>]
NoResult == [kind |-> "none", val |-> <<>>]

\* how long the next command may take: no time, or a second of the budget
Latencies == {l \in {0, 1} : cmdTime + l <= MaxCmdTime}

----------------------------------------------------------------------------
(* Raw output and the structured parse                                     *)
(*                                                                         *)
(* Characters of a raw output: two kinds of whitespace, the JSON           *)
(* punctuation, the digit 1, a letter that no JSON text starts with, and   *)
(* "D", which abbreviates one complete object                              *)
(* {"pg_map": {"pg_stats": [...]}} as `ceph pg dump_json pgs` prints it.    *)

Chars == {" ", "\n", "{", "}", "[", "]", ",", "1", "x", "D"}

RawOutputs == UNION {[1..n -> Chars] : n \in 0..MaxLen}

IsWs(c) == c \in {" ", "\n"}

\* str.isspace(): all characters are whitespace and there is at least one
isspace(s) == Len(s) > 0 /\ \A i \in 1..Len(s) : IsWs(s[i])

RECURSIVE SkipWs(_, _)
SkipWs(s, i) == IF i <= Len(s) /\ IsWs(s[i]) THEN SkipWs(s, i + 1) ELSE i

RECURSIVE ScanDigits(_, _)
ScanDigits(s, i) == IF i <= Len(s) /\ s[i] = "1" THEN ScanDigits(s, i + 1) ELSE i

\* The JSON decoder's scanner: the index after the value that starts at i,
\* or 0 when no value starts there.
RECURSIVE ParseValue(_, _), ParseElems(_, _)
ParseValue(s, i) ==
    IF i > Len(s) THEN 0
    ELSE CASE s[i] = "1" -> ScanDigits(s, i)
           [] s[i] = "D" -> i + 1
           [] s[i] = "{" -> LET j == SkipWs(s, i + 1)
                            IN  IF j <= Len(s) /\ s[j] = "}" THEN j + 1 ELSE 0
           [] s[i] = "[" -> LET j == SkipWs(s, i + 1)
                            IN  IF j <= Len(s) /\ s[j] = "]" THEN j + 1
                                ELSE ParseElems(s, j)
           [] OTHER -> 0

ParseElems(s, i) ==
    LET e == ParseValue(s, i)
    IN  IF e = 0 THEN 0
        ELSE LET j == SkipWs(s, e)
             IN  IF j > Len(s) THEN 0
                 ELSE IF s[j] = "]" THEN j + 1
                 ELSE IF s[j] = "," THEN ParseElems(s, SkipWs(s, j + 1))
                 ELSE 0

NotWs(c) == ~IsWs(c)

\* json.loads(out): the document, or JSONDecodeError; leading and trailing
\* whitespace is allowed, anything else after the value is "Extra data".
json_loads(s) ==
    LET e == ParseValue(s, SkipWs(s, 1))
    IN  IF e # 0 /\ SkipWs(s, e) = Len(s) + 1
        THEN Return(SelectSeq(s, NotWs))
        ELSE Raise("JSONDecodeError")

\* run_ceph_command: an exception of the command is caught and None is
\* returned; a whitespace output is {}; anything else is decoded outside
\* the try block.
run_ceph_command_decode_in_try(out, tr) ==
    IF tr = "fail" THEN Return(PyNone)
    ELSE IF isspace(out) THEN Return(EmptyDoc)
    ELSE IF json_loads(out).kind = "raise" THEN Return(PyNone)
    ELSE json_loads(out)

run_ceph_command(out, tr) ==
    IF tr = "fail" THEN Return(PyNone)
    ELSE IF isspace(out) THEN Return(EmptyDoc)
    ELSE json_loads(out)

\* pg ids: the one asked for and the ones a dump lists
PgIds == {"1.0", "1.1"}

\* get_ceph_pg_dump: exec_command's exception is not caught; the same
\* whitespace test and decode; then the subscripts and the search.
get_ceph_pg_dump(out, tr, pg_id, listed) ==
    IF tr = "fail" THEN Raise("CommandFailed")
    ELSE IF isspace(out) THEN Return(EmptyDoc)
    ELSE LET d == json_loads(out)
         IN  IF d.kind = "raise" THEN d
             ELSE IF d.val = <<"D">>
                  THEN IF pg_id \in listed THEN Return(<<"pg_stat", pg_id>>)
                       ELSE Raise("KeyError")
             ELSE IF d.val = EmptyDoc THEN Raise("KeyError")
             ELSE Raise("TypeError")

----------------------------------------------------------------------------
(* The state after construction, and what a call starts from *)

CallLocalsInit ==
    /\ result = NoResult
    /\ raw = <<>>
    /\ transport = "ok"
    /\ target = "node"
    /\ now = 0
    /\ cmdTime = 0
    /\ end_time = 0
    /\ fetches = 0
    /\ sleeps = 0
    /\ flag = "unbound"
    /\ waitOutcome = "none"
    /\ observed = <<>>
    /\ lastFetch = "none"
    /\ action = "none"
    /\ retry = 0
    /\ iteration = 0
    /\ osd_info = <<>>
    /\ osd_info_end = <<>>
    /\ affected_osds = {}
    /\ svc = 0
    /\ daemon_services = <<>>
    /\ daemon_map = <<>>
    /\ cmds = <<>>
    /\ restarted = {}
    /\ kwargs = <<>>
    /\ cluster = <<>>
    /\ calls = 0
    /\ prev_result = NoResult
    /\ obj_size = 0
    /\ tasks = <<>>
    /\ written = {}

\* __init__(node): the admin node, its cluster, the cluster's first client
\* node and the build of the node's configuration
SessionAtInit ==
    [node |-> "admin", ceph_cluster |-> "cluster", client |-> "client.0",
     rhbuild |-> "rhbuild"]

Init ==
    /\ op = "none"
    /\ pc = "idle"
    /\ recoveryCfg = "default"
    /\ session = SessionAtInit
    /\ CallLocalsInit

loopVars == <<now, cmdTime, end_time, fetches, sleeps, flag, waitOutcome, observed,
             lastFetch>>
maintVars == <<retry, iteration>>
reweightVars == <<osd_info, osd_info_end, affected_osds>>
restartVars == <<svc, daemon_services, daemon_map>>
ioVars == <<obj_size, tasks, written>>
extVars == <<kwargs, cluster, calls, prev_result, ioVars>>

----------------------------------------------------------------------------
(* run_ceph_command and get_ceph_pg_dump *)

Call_run_ceph_command ==
    /\ pc = "idle"
    /\ \E client_exec \in BOOLEAN, tr \in {"ok", "fail"}, out \in RawOutputs :
          /\ tr = "fail" => out = <<>>
          /\ target' = IF client_exec THEN "client" ELSE "node"
          /\ transport' = tr
          /\ raw' = out
          /\ result' = run_ceph_command(out, tr)
    /\ op' = "run_ceph_command"
    /\ pc' = "done"
    /\ UNCHANGED <<loopVars, action, maintVars, reweightVars, restartVars,
                   recoveryCfg, cmds>>
    /\ UNCHANGED <<restarted, extVars>>
    /\ UNCHANGED session

Call_get_ceph_pg_dump ==
    /\ pc = "idle"
    /\ \E tr \in {"ok", "fail"}, out \in RawOutputs, pg_id \in PgIds,
          listed \in SUBSET PgIds :
          /\ tr = "fail" => out = <<>>
          /\ (tr = "fail" \/ json_loads(out).val # <<"D">>) => listed = {}
          /\ transport' = tr
          /\ raw' = out
          /\ result' = get_ceph_pg_dump(out, tr, pg_id, listed)
    /\ target' = "client"
    /\ op' = "get_ceph_pg_dump"
    /\ pc' = "done"
    /\ UNCHANGED <<loopVars, action, maintVars, reweightVars, restartVars,
                   recoveryCfg, cmds>>
    /\ UNCHANGED <<restarted, extVars>>
    /\ UNCHANGED session

----------------------------------------------------------------------------
(* What `ceph report` returns to a wait loop                                *)

Bool(b) == IF b THEN "True" ELSE "False"

\* health checks a report may list; the last one is not in health_warns
HealthKeys == {"PG_DEGRADED", "SLOW_OPS", "POOL_NEAR_FULL"}

\* most entries of a report's num_pg_by_state
MaxEntries == 2

\* a PG state as `ceph report` prints it: state names joined by "+"
PgStates == { <<"active", "+", "clean">>,
              <<"active", "+", "remapped", "+", "backfilling">>,
              <<"active", "+", "clean", "+", "scrubbing">> }

PgLists == UNION {[1..n -> PgStates] : n \in 0..MaxEntries}

\* the outcome of run_ceph_command(cmd="ceph report") as the loops use it:
\* None (the command failed), {} (blank output), or a report
FailedFetch == [t |-> "fail", checks |-> {}, pgs |-> <<>>]
BlankFetch == [t |-> "blank", checks |-> {}, pgs |-> <<>>]
HealthReports == {[t |-> "report", checks |-> c, pgs |-> <<>>] : c \in SUBSET HealthKeys}
PgReports == {[t |-> "report", checks |-> {}, pgs |-> l] : l \in PgLists}

\* subscripting what run_ceph_command returned when it is no report
SubscriptError(out) == IF out.t = "fail" THEN Raise("TypeError") ELSE Raise("KeyError")

----------------------------------------------------------------------------
(* run_pool_sanity_check *)

PoolSanitySettle == 10
PoolSanityDeadline == 600
PoolSanityInterval == 10

health_warns == {"PG_AVAILABILITY", "PG_DEGRADED", "PG_RECOVERY_FULL",
                 "TOO_FEW_OSDS", "PG_BACKFILL_FULL", "PG_DAMAGED",
                 "OSD_SCRUB_ERRORS", "OSD_TOO_MANY_REPAIRS",
                 "CACHE_POOL_NEAR_FULL", "SMALLER_PGP_NUM",
                 "MANY_OBJECTS_PER_PG", "OBJECT_MISPLACED", "OBJECT_UNFOUND",
                 "SLOW_OPS", "RECENT_CRASH"}

\* flag = False if any(key in health_warns for key in checks) else True
NoHealthWarning(checks) == ~ \E key \in checks : key \in health_warns

Call_run_pool_sanity_check ==
    /\ pc = "idle"
    /\ \E lat \in Latencies :
          /\ cmdTime' = lat
          /\ now' = PoolSanitySettle + lat
          /\ end_time' = PoolSanitySettle + lat + PoolSanityDeadline
    /\ cmds' = << <<"ceph", "osd", "scrub", "all">>,
                  <<"ceph", "osd", "deep-scrub", "all">> >>
    /\ flag' = "False"
    /\ op' = "run_pool_sanity_check"
    /\ pc' = "loop"
    /\ target' = "client"
    /\ UNCHANGED <<lastFetch, result, raw, transport, fetches, sleeps, waitOutcome,
                   action, maintVars, reweightVars, restartVars,
                   recoveryCfg>>
    \* no health check has been fetched yet
    /\ observed' = {}
    /\ UNCHANGED <<restarted, extVars>>
    /\ UNCHANGED session

\* one pass of the while loop: fetch, evaluate, then break or sleep
run_pool_sanity_check_iter_sleep_first(out, lat) ==
    /\ fetches' = fetches + 1
    /\ lastFetch' = out.t
    /\ cmdTime' = cmdTime + lat
    /\ now' = now + lat + PoolSanityInterval
    /\ sleeps' = sleeps + 1
    /\ IF out.t # "report"
       THEN /\ transport' = IF out.t = "fail" THEN "fail" ELSE "ok"
            /\ result' = SubscriptError(out)
            /\ waitOutcome' = "raise"
            /\ pc' = "done"
            /\ UNCHANGED <<flag, observed>>
       ELSE /\ transport' = "ok"
            /\ observed' = out.checks
            /\ flag' = Bool(NoHealthWarning(out.checks))
            /\ IF NoHealthWarning(out.checks)
               THEN /\ result' = Return(PyTrue)
                    /\ waitOutcome' = "success"
                    /\ pc' = "done"
               ELSE UNCHANGED <<result, waitOutcome, pc>>

run_pool_sanity_check_iter(out, lat) ==
    /\ fetches' = fetches + 1
    /\ lastFetch' = out.t
    /\ cmdTime' = cmdTime + lat
    /\ IF out.t # "report"
       THEN /\ transport' = IF out.t = "fail" THEN "fail" ELSE "ok"
            /\ result' = SubscriptError(out)
            /\ waitOutcome' = "raise"
            /\ pc' = "done"
            /\ now' = now + lat
            /\ UNCHANGED <<flag, observed, sleeps>>
       ELSE /\ transport' = "ok"
            /\ observed' = out.checks
            /\ flag' = Bool(NoHealthWarning(out.checks))
            /\ IF NoHealthWarning(out.checks)
               THEN /\ result' = Return(PyTrue)
                    /\ waitOutcome' = "success"
                    /\ pc' = "done"
                    /\ now' = now + lat
                    /\ UNCHANGED sleeps
               ELSE /\ now' = now + lat + PoolSanityInterval
                    /\ sleeps' = sleeps + 1
                    /\ UNCHANGED <<result, waitOutcome, pc>>

Iter_run_pool_sanity_check ==
    /\ pc = "loop"
    /\ op = "run_pool_sanity_check"
    /\ end_time > now
    /\ \E out \in {FailedFetch, BlankFetch} \cup HealthReports, lat \in Latencies :
          run_pool_sanity_check_iter(out, lat)
    /\ UNCHANGED <<op, raw, target, end_time, action, maintVars, reweightVars,
                   restartVars, recoveryCfg, cmds>>
    /\ UNCHANGED <<restarted, extVars>>
    /\ UNCHANGED session

\* the deadline has passed at the loop test: `if not flag: return False`
Timeout_run_pool_sanity_check ==
    /\ pc = "loop"
    /\ op = "run_pool_sanity_check"
    /\ ~(end_time > now)
    /\ result' = IF flag = "True" THEN Return(PyTrue) ELSE Return(PyFalse)
    /\ waitOutcome' = "timeout"
    /\ pc' = "done"
    /\ UNCHANGED <<lastFetch, op, raw, transport, target, now, cmdTime, end_time, fetches,
                   sleeps, flag, observed, action, maintVars, reweightVars,
                   restartVars, recoveryCfg, cmds>>
    /\ UNCHANGED <<restarted, extVars>>
    /\ UNCHANGED session

----------------------------------------------------------------------------
(* verify_reweight *)

ReweightDeadline == 1200
ReweightInterval == 60

OsdIds == {0, 1}
KbUsed == {1, 2}

\* str.split(sep): the pieces between the separators
RECURSIVE split(_, _)
split(str, sep) ==
    IF \E i \in 1..Len(str) : str[i] = sep
    THEN LET k == CHOOSE i \in 1..Len(str) :
                      str[i] = sep /\ \A j \in 1..(i - 1) : str[j] # sep
         IN  <<SubSeq(str, 1, k - 1)>> \o split(SubSeq(str, k + 1, Len(str)), sep)
    ELSE <<str>>

rec == {<<"remapped">>, <<"backfilling">>}

\* False if any(key in rec for key in entry["state"].split("+")) else True
EntryFlag(state) ==
    ~ \E i \in 1..Len(split(state, "+")) : split(state, "+")[i] \in rec

\* the for loop over num_pg_by_state assigns flag once per entry
RECURSIVE FlagAfterEntries(_, _)
FlagAfterEntries(entries, f) ==
    IF entries = <<>> THEN f
    ELSE FlagAfterEntries(Tail(entries), Bool(EntryFlag(Head(entries))))

\* the utilization check after the wait: False at the first re-weighted
\* OSD whose kb_used before is greater than its kb_used after
UtilizationCheck(affected, init, end) ==
    IF \E id \in affected : init[id] > end[id] THEN PyFalse ELSE PyTrue

\* change_recovery_threads(config={}, action): one command per setting
\* (on an mclock cluster it first sets an override option that the model's
\* cluster state does not hold)
RecoveryThreadCmds(act) ==
    << <<"ceph", "config", act, "osd", "osd_max_backfills">>,
       <<"ceph", "config", act, "osd", "osd_recovery_max_active">> >>

Call_verify_reweight ==
    /\ pc = "idle"
    /\ \E lat \in Latencies :
          /\ cmdTime' = lat
          /\ now' = lat
          /\ end_time' = lat + ReweightDeadline
    /\ recoveryCfg' = "set"
    /\ cmds' = RecoveryThreadCmds("set")
    /\ op' = "verify_reweight"
    /\ pc' = "loop"
    /\ UNCHANGED <<lastFetch, result, raw, transport, target, fetches, sleeps, flag,
                   waitOutcome, observed, action, maintVars, reweightVars,
                   restartVars>>
    /\ UNCHANGED <<restarted, extVars>>
    /\ UNCHANGED session

\* what follows the loop once it has ended with flag bound to True:
\* the recovery settings are removed and the utilization is compared
verify_reweight_after(out) ==
    /\ recoveryCfg' = "default"
    /\ cmds' = cmds \o RecoveryThreadCmds("rm")
    /\ IF out = "fail"
       THEN /\ transport' = "fail"
            /\ result' = Raise("TypeError")
            /\ UNCHANGED reweightVars
       ELSE /\ transport' = "ok"
            /\ affected_osds' \in SUBSET OsdIds
            /\ osd_info' \in [OsdIds -> KbUsed]
            /\ osd_info_end' \in [OsdIds -> KbUsed]
            /\ result' = Return(UtilizationCheck(affected_osds', osd_info',
                                                 osd_info_end'))

verify_reweight_iter(out, lat) ==
    /\ fetches' = fetches + 1
    /\ lastFetch' = out.t
    /\ cmdTime' = cmdTime + lat
    /\ IF out.t # "report"
       THEN /\ transport' = IF out.t = "fail" THEN "fail" ELSE "ok"
            /\ result' = SubscriptError(out)
            /\ waitOutcome' = "raise"
            /\ pc' = "done"
            /\ now' = now + lat
            /\ UNCHANGED <<flag, observed, sleeps, reweightVars, recoveryCfg, cmds>>
       ELSE /\ observed' = out.pgs
            /\ flag' = FlagAfterEntries(out.pgs, flag)
            /\ CASE FlagAfterEntries(out.pgs, flag) = "unbound" ->
                       \* `if flag:` reads a local that was never assigned
                       /\ transport' = "ok"
                       /\ result' = Raise("UnboundLocalError")
                       /\ waitOutcome' = "raise"
                       /\ pc' = "done"
                       /\ now' = now + lat
                       /\ UNCHANGED <<sleeps, reweightVars, recoveryCfg, cmds>>
                 [] FlagAfterEntries(out.pgs, flag) = "True" ->
                       /\ waitOutcome' = "success"
                       /\ pc' = "done"
                       /\ now' = now + lat
                       /\ UNCHANGED sleeps
                       /\ \E df \in {"ok", "fail"} : verify_reweight_after(df)
                 [] OTHER ->
                       /\ transport' = "ok"
                       /\ now' = now + lat + ReweightInterval
                       /\ sleeps' = sleeps + 1
                       /\ UNCHANGED <<result, waitOutcome, pc, reweightVars,
                                      recoveryCfg, cmds>>

Iter_verify_reweight ==
    /\ pc = "loop"
    /\ op = "verify_reweight"
    /\ end_time > now
    /\ \E out \in {FailedFetch, BlankFetch} \cup PgReports, lat \in Latencies :
          verify_reweight_iter(out, lat)
    /\ UNCHANGED <<op, raw, target, end_time, action, maintVars, restartVars>>
    /\ UNCHANGED <<restarted, extVars>>
    /\ UNCHANGED session

\* the deadline has passed at the loop test: the recovery settings are
\* removed, then `if not flag: return False`
Timeout_verify_reweight ==
    /\ pc = "loop"
    /\ op = "verify_reweight"
    /\ ~(end_time > now)
    /\ recoveryCfg' = "default"
    /\ cmds' = cmds \o RecoveryThreadCmds("rm")
    /\ result' = IF flag = "unbound" THEN Raise("UnboundLocalError")
                 ELSE Return(PyFalse)
    /\ waitOutcome' = IF flag = "unbound" THEN "raise" ELSE "timeout"
    /\ pc' = "done"
    /\ UNCHANGED <<lastFetch, op, raw, transport, target, now, cmdTime, end_time, fetches,
                   sleeps, flag, observed, action, maintVars, reweightVars,
                   restartVars>>
    /\ UNCHANGED <<restarted, extVars>>
    /\ UNCHANGED session

----------------------------------------------------------------------------
(* change_osd_state *)

OsdStateTimeout == 180
OsdStateInterval == 20
ResetFailedSleep == 5
OtherActionSleep == 20

\* (status, status_desc) of `ceph orch ps`; the orchestrator derives the
\* description from the status, so the two agree
DaemonStates == {<<0, "stopped">>, <<1, "running">>, <<-1, "error">>}

OsdActions == {"start", "stop", "restart"}

\* the test with its "stop" half left out
InDesiredState_start_only(st, act) ==
    (st[1] = 1 \/ st[2] = "running") /\ act = "start"

\* the test made before any command and again in every pass of the loop
InDesiredState(st, act) ==
    \/ (st[1] = 0 \/ st[2] = "stopped") /\ act = "stop"
    \/ (st[1] = 1 \/ st[2] = "running") /\ act = "start"

\* pass_status after the loop, from osd_status alone
PassStatus(st, act) ==
    /\ ~(act = "stop" /\ st[1] # 0)
    /\ ~(act = "start" /\ st[1] # 1)

Call_change_osd_state ==
    /\ pc = "idle"
    /\ op' = "change_osd_state"
    /\ \E act \in OsdActions, lat \in Latencies,
          entry \in {"fsid_failed", "no_host", "status_failed", "ok"},
          st \in DaemonStates :
          /\ entry # "ok" => st = <<0, "stopped">>
          /\ action' = act
          /\ cmdTime' = lat
          /\ transport' = IF entry \in {"fsid_failed", "status_failed"}
                          THEN "fail" ELSE "ok"
          /\ CASE entry = "fsid_failed" \/ entry = "status_failed" ->
                     \* run_ceph_command returned None and it is subscripted
                     /\ result' = Raise("TypeError")
                     /\ pc' = "done"
                     /\ now' = lat
                     /\ UNCHANGED <<end_time, observed, cmds>>
               [] entry = "no_host" ->
                     /\ result' = Return(PyFalse)
                     /\ pc' = "done"
                     /\ now' = lat
                     /\ UNCHANGED <<end_time, observed, cmds>>
               [] OTHER ->
                     /\ observed' = st
                     /\ IF InDesiredState(st, act)
                        THEN /\ result' = Return(PyTrue)
                             /\ pc' = "done"
                             /\ now' = lat
                             /\ UNCHANGED <<end_time, cmds>>
                        ELSE /\ cmds' = << <<"systemctl", "reset-failed">>,
                                           <<"systemctl", act>> >>
                             /\ IF act \in {"start", "stop"}
                                THEN /\ now' = lat + ResetFailedSleep
                                     /\ end_time' = lat + ResetFailedSleep
                                                        + OsdStateTimeout
                                     /\ pc' = "loop"
                                     /\ UNCHANGED result
                                ELSE /\ now' = lat + ResetFailedSleep
                                                   + OtherActionSleep
                                     /\ result' = Return(PyTrue)
                                     /\ pc' = "done"
                                     /\ UNCHANGED end_time
    /\ UNCHANGED <<lastFetch, raw, target, fetches, sleeps, flag, waitOutcome, maintVars,
                   reweightVars, restartVars, recoveryCfg>>
    /\ UNCHANGED <<restarted, extVars>>
    /\ UNCHANGED session

\* one pass of the while loop; out is a daemon state or "fail"
change_osd_state_iter(failed, st, lat) ==
    /\ fetches' = fetches + 1
    /\ lastFetch' = IF failed THEN "fail" ELSE "report"
    /\ cmdTime' = cmdTime + lat
    /\ IF failed
       THEN /\ transport' = "fail"
            /\ result' = Raise("TypeError")
            /\ waitOutcome' = "raise"
            /\ pc' = "done"
            /\ now' = now + lat
            /\ UNCHANGED <<observed, sleeps>>
       ELSE /\ transport' = "ok"
            /\ observed' = st
            /\ IF InDesiredState(st, action)
               THEN /\ now' = now + lat
                    /\ pc' = "done"
                    /\ waitOutcome' = "success"
                    /\ result' = IF PassStatus(st, action) THEN Return(PyTrue)
                                 ELSE Return(PyFalse)
                    /\ UNCHANGED sleeps
               ELSE /\ now' = now + lat + OsdStateInterval
                    /\ sleeps' = sleeps + 1
                    /\ UNCHANGED <<result, waitOutcome, pc>>

Iter_change_osd_state ==
    /\ pc = "loop"
    /\ op = "change_osd_state"
    /\ now <= end_time
    /\ \E failed \in BOOLEAN, st \in DaemonStates, lat \in Latencies :
          /\ failed => st = <<0, "stopped">>
          /\ change_osd_state_iter(failed, st, lat)
    /\ UNCHANGED <<op, raw, target, end_time, flag, action, maintVars,
                   reweightVars, restartVars, recoveryCfg, cmds>>
    /\ UNCHANGED <<restarted, extVars>>
    /\ UNCHANGED session

\* the timeout has passed at the loop test: pass_status is computed from
\* the status fetched last
Timeout_change_osd_state ==
    /\ pc = "loop"
    /\ op = "change_osd_state"
    /\ ~(now <= end_time)
    /\ result' = IF PassStatus(observed, action) THEN Return(PyTrue)
                 ELSE Return(PyFalse)
    /\ waitOutcome' = "timeout"
    /\ pc' = "done"
    /\ UNCHANGED <<lastFetch, op, raw, transport, target, now, cmdTime, end_time, fetches,
                   sleeps, flag, observed, action, maintVars, reweightVars,
                   restartVars, recoveryCfg, cmds>>
    /\ UNCHANGED <<restarted, extVars>>
    /\ UNCHANGED session

----------------------------------------------------------------------------
(* restart_daemon_services *)

RestartDeadline == 300
RestartInterval == 30

\* most services `ceph orch ls <daemon>` lists
MaxServices == 2
\* most fetches one call makes while waiting
MaxRestartFetches == 13

Daemons == {"a", "b"}
\* a daemon's start time: before or after the restart command
StartTimes == {9, 10}

\* date -d <started> +'%Y%m%d%H%M%S': fixed-width digits (two here)
FormatDate(t) == <<t \div 10, t % 10>>

\* str > str, for two strings of digits of equal length
RECURSIVE StrGreater(_, _)
StrGreater(x, y) ==
    IF x = <<>> \/ y = <<>> THEN Len(x) > Len(y)
    ELSE IF Head(x) # Head(y) THEN Head(x) > Head(y)
    ELSE StrGreater(Tail(x), Tail(y))

DaemonEntries ==
    [daemon_name : Daemons, started : StartTimes,
     status_desc : {"running", "stopped"}]

\* what `ceph orch ps --service_name <service>` lists: each daemon once
DaemonLists ==
    {l \in UNION {[1..n -> DaemonEntries] : n \in 0..Cardinality(Daemons)} :
        \A i, j \in 1..Len(l) : i # j => l[i].daemon_name # l[j].daemon_name}

\* daemon_map as captured before the restart command: the daemons listed
\* then, each with the earlier start time
DaemonMaps == UNION {[S -> {FormatDate(9)}] : S \in SUBSET Daemons}

\* the for loop over the fetched entries: "KeyError" when a daemon has no
\* captured start time, "Asserted" when an assert failed (the loop slept
\* and left with success = False), else success as it stands after the
\* entries ("True" once an entry passed, unchanged for no entry)
RECURSIVE CheckEntries(_, _, _)
CheckEntries(entries, map, success) ==
    IF entries = <<>> THEN success
    ELSE LET e == Head(entries)
         IN  IF e.daemon_name \notin DOMAIN map THEN "KeyError"
             ELSE IF /\ StrGreater(FormatDate(e.started), map[e.daemon_name])
                     /\ e.status_desc # "stopped"
                  THEN CheckEntries(Tail(entries), map, "True")
                  ELSE "Asserted"

\* the daemons a fetched list shows with a start time later than the
\* captured one and a status description other than "stopped"
ShownRestarted(entries, map) ==
    {entries[i].daemon_name : i \in
        {j \in 1..Len(entries) :
            /\ entries[j].daemon_name \in DOMAIN map
            /\ StrGreater(FormatDate(entries[j].started),
                          map[entries[j].daemon_name])
            /\ entries[j].status_desc # "stopped"}}

RestartCmds(n) == [i \in 1..n |-> <<"ceph", "orch", "restart", i>>]

Call_restart_daemon_services ==
    /\ pc = "idle"
    /\ op' = "restart_daemon_services"
    /\ \E n \in 0..MaxServices, failed \in BOOLEAN, m \in DaemonMaps,
          lat \in Latencies :
          /\ (failed \/ n = 0) => m = <<>>
          /\ failed => n = 0
          /\ cmdTime' = lat
          /\ now' = lat
          /\ IF failed
             THEN \* list_orch_services iterates over None
                  /\ transport' = "fail"
                  /\ result' = Raise("TypeError")
                  /\ pc' = "done"
                  /\ UNCHANGED <<restartVars, end_time, cmds, flag>>
             ELSE /\ transport' = "ok"
                  /\ daemon_services' = [i \in 1..n |-> i]
                  /\ daemon_map' = m
                  /\ cmds' = RestartCmds(n)
                  /\ end_time' = lat + RestartDeadline
                  /\ flag' = "False"
                  /\ svc' = 1
                  /\ IF n = 0
                     THEN /\ result' = Return(PyTrue)
                          /\ pc' = "done"
                     ELSE /\ pc' = "loop"
                          /\ UNCHANGED result
    /\ UNCHANGED <<lastFetch, raw, target, fetches, sleeps, waitOutcome, observed, action,
                   maintVars, reweightVars, recoveryCfg>>
    /\ restarted' = {}
    /\ UNCHANGED extVars
    /\ UNCHANGED session

\* one pass of the while loop of the service waited for
restart_daemon_services_iter(failed, entries, lat) ==
    /\ fetches' = fetches + 1
    /\ restarted' = restarted \cup ShownRestarted(entries, daemon_map)
    /\ lastFetch' = IF failed THEN "fail" ELSE "report"
    /\ cmdTime' = cmdTime + lat
    /\ IF failed
       THEN /\ transport' = "fail"
            /\ result' = Raise("TypeError")
            /\ waitOutcome' = "raise"
            /\ pc' = "done"
            /\ now' = now + lat
            /\ UNCHANGED <<observed, sleeps, flag, svc>>
       ELSE /\ transport' = "ok"
            /\ observed' = <<Len(entries)>>
            /\ CASE CheckEntries(entries, daemon_map, flag) = "KeyError" ->
                       /\ result' = Raise("KeyError")
                       /\ waitOutcome' = "raise"
                       /\ pc' = "done"
                       /\ now' = now + lat
                       /\ UNCHANGED <<sleeps, flag, svc>>
                 [] CheckEntries(entries, daemon_map, flag) = "Asserted" ->
                       /\ flag' = "False"
                       /\ now' = now + lat + RestartInterval
                       /\ sleeps' = sleeps + 1
                       /\ UNCHANGED <<result, waitOutcome, pc, svc>>
                 [] CheckEntries(entries, daemon_map, flag) = "True" ->
                       \* break: on to the next service, or return True
                       /\ flag' = "True"
                       /\ now' = now + lat
                       /\ svc' = svc + 1
                       /\ UNCHANGED sleeps
                       /\ IF svc = Len(daemon_services)
                          THEN /\ result' = Return(PyTrue)
                               /\ waitOutcome' = "success"
                               /\ pc' = "done"
                          ELSE UNCHANGED <<result, waitOutcome, pc>>
                 [] OTHER ->
                       \* no entry and success still False: the loop test
                       \* is made again at once
                       /\ now' = now + lat
                       /\ UNCHANGED <<result, waitOutcome, pc, svc, sleeps, flag>>

Iter_restart_daemon_services ==
    /\ pc = "loop"
    /\ op = "restart_daemon_services"
    /\ now <= end_time
    /\ fetches < MaxRestartFetches
    /\ \E failed \in BOOLEAN, entries \in DaemonLists, lat \in Latencies :
          /\ failed => entries = <<>>
          /\ restart_daemon_services_iter(failed, entries, lat)
    /\ UNCHANGED <<op, raw, target, end_time, action, maintVars, reweightVars,
                   daemon_services, daemon_map, recoveryCfg, cmds>>
    /\ UNCHANGED extVars
    /\ UNCHANGED session

\* the deadline has passed at the loop test: the while's else returns False
Timeout_restart_daemon_services ==
    /\ pc = "loop"
    /\ op = "restart_daemon_services"
    /\ ~(now <= end_time)
    /\ result' = Return(PyFalse)
    /\ waitOutcome' = "timeout"
    /\ pc' = "done"
    /\ UNCHANGED <<lastFetch, op, raw, transport, target, now, cmdTime, end_time, fetches,
                   sleeps, flag, observed, action, maintVars, reweightVars,
                   restartVars, recoveryCfg, cmds>>
    /\ UNCHANGED <<restarted, extVars>>
    /\ UNCHANGED session

\* the passes past the fetch bound: the listing stays empty, nothing is slept,
\* and the clock, which every command moves on, runs past the deadline
Elapse_restart_daemon_services_clock_stalled ==
    /\ pc = "loop"
    /\ op = "restart_daemon_services"
    /\ now <= end_time
    /\ fetches = MaxRestartFetches
    /\ UNCHANGED vars

Elapse_restart_daemon_services ==
    /\ pc = "loop"
    /\ op = "restart_daemon_services"
    /\ now <= end_time
    /\ fetches = MaxRestartFetches
    /\ now' = end_time + 1
    /\ UNCHANGED <<lastFetch, op, raw, transport, target, cmdTime, end_time, fetches,
                   sleeps, flag, observed, action, maintVars, reweightVars,
                   restartVars, recoveryCfg, cmds, result, waitOutcome, pc>>
    /\ UNCHANGED <<restarted, extVars>>
    /\ UNCHANGED session

----------------------------------------------------------------------------
(* check_host_status, host_maintenance_enter, host_maintenance_exit *)

MaintCmdSleep == 20
MaintRetrySleep == 15

\* largest retry argument
MaxRetry == 2

\* the "status" field of `ceph orch host ls`, as the words it holds: empty
\* for a host that is online and not in maintenance
HostStatuses == {<<>>, <<"Maintenance">>, <<"Offline">>}

\* str.lower() on a word
LowerWord(w) ==
    CASE w = "Maintenance" -> "maintenance"
      [] w = "Offline" -> "offline"
      [] OTHER -> w

lower(str) == [i \in 1..Len(str) |-> LowerWord(str[i])]

\* `word in str`
Contains(str, word) == \E i \in 1..Len(str) : str[i] = word

\* check_host_status(hostname, status): status is a word or "None"
check_host_status(host_status_raw, status) ==
    LET host_status == lower(host_status_raw)
    IN  IF status # "None" /\ Contains(host_status, LowerWord(status)) THEN TRUE
        ELSE IF Contains(host_status, "offline") THEN FALSE
        ELSE TRUE

Call_host_maintenance ==
    /\ pc = "idle"
    /\ \E o \in {"host_maintenance_enter", "host_maintenance_exit"},
          r \in 0..MaxRetry :
          /\ op' = o
          /\ retry' = r
    /\ iteration' = 0
    /\ pc' = "loop"
    /\ target' = "client"
    /\ UNCHANGED <<result, raw, transport, loopVars, action, reweightVars,
                   restartVars, recoveryCfg, cmds>>
    /\ UNCHANGED <<restarted, extVars>>
    /\ UNCHANGED session

\* one pass of host_maintenance_enter's while loop
host_maintenance_enter_iter(hs) ==
    /\ iteration' = iteration + 1
    /\ cmds' = Append(cmds, <<"ceph", "orch", "host", "maintenance", "enter">>)
    /\ observed' = hs
    /\ IF ~check_host_status(hs, "maintenance")
       THEN /\ now' = now + MaintCmdSleep + MaintRetrySleep
            /\ IF iteration + 1 = retry
               THEN /\ result' = Return(PyFalse)
                    /\ pc' = "done"
               ELSE UNCHANGED <<result, pc>>
       ELSE /\ now' = now + MaintCmdSleep
            /\ result' = Return(PyTrue)
            /\ pc' = "done"

\* one pass of host_maintenance_exit's while loop
host_maintenance_exit_iter(hs) ==
    /\ iteration' = iteration + 1
    /\ cmds' = Append(cmds, <<"ceph", "orch", "host", "maintenance", "exit">>)
    /\ observed' = hs
    /\ IF ~check_host_status(hs, "None")
       THEN /\ now' = now + MaintCmdSleep + MaintRetrySleep
            /\ IF iteration + 1 = retry
               THEN /\ result' = Return(PyFalse)
                    /\ pc' = "done"
               ELSE UNCHANGED <<result, pc>>
       ELSE /\ now' = now + MaintCmdSleep
            /\ result' = Return(PyTrue)
            /\ pc' = "done"

Iter_host_maintenance_enter ==
    /\ pc = "loop"
    /\ op = "host_maintenance_enter"
    /\ iteration <= retry
    /\ \E hs \in HostStatuses : host_maintenance_enter_iter(hs)
    /\ UNCHANGED <<lastFetch, op, raw, transport, target, cmdTime, end_time, fetches,
                   sleeps, flag, waitOutcome, action, retry, reweightVars,
                   restartVars, recoveryCfg>>
    /\ UNCHANGED <<restarted, extVars>>
    /\ UNCHANGED session

Iter_host_maintenance_exit ==
    /\ pc = "loop"
    /\ op = "host_maintenance_exit"
    /\ iteration <= retry
    /\ \E hs \in HostStatuses : host_maintenance_exit_iter(hs)
    /\ UNCHANGED <<lastFetch, op, raw, transport, target, cmdTime, end_time, fetches,
                   sleeps, flag, waitOutcome, action, retry, reweightVars,
                   restartVars, recoveryCfg>>
    /\ UNCHANGED <<restarted, extVars>>
    /\ UNCHANGED session

\* `while iteration <= retry` is false: the function ends without a return
\* statement, which returns None
FallOut_host_maintenance ==
    /\ pc = "loop"
    /\ op \in {"host_maintenance_enter", "host_maintenance_exit"}
    /\ ~(iteration <= retry)
    /\ result' = Return(PyNone)
    /\ pc' = "done"
    /\ UNCHANGED <<op, raw, transport, target, loopVars, action, maintVars,
                   reweightVars, restartVars, recoveryCfg, cmds>>
    /\ UNCHANGED <<restarted, extVars>>
    /\ UNCHANGED session

----------------------------------------------------------------------------
(* detete_pool *)

Pools == {"p", "q"}

\* how a fetch through run_ceph_command ends: None, {} or a document
FetchOutcomes == {"fail", "blank", "report"}
\* what the delete command does: it removes the pool, it returns without
\* removing it, or it fails and exec_command raises
DeleteOutcomes == {"removed", "kept", "raise"}

AllowDeleteCmd == <<"ceph", "config", "set", "mon", "mon_allow_pool_delete">>
DeleteCmd(pool) == <<"ceph", "osd", "pool", "delete", pool>>

\* the outcome of a call that ended: its result, the commands it issued,
\* the cluster it leaves, its `ceph df` fetches, what the last fetch was,
\* and what the pool listing showed before and after the delete command
Ended(res, issued, cl, n, last, seen) ==
    [result |-> res, cmds |-> issued, cluster |-> cl, fetches |-> n,
     lastFetch |-> last, observed |-> seen]

\* the configuration check: nothing is issued when the option is listed
ConfigCmds(cl, cfg) ==
    IF cfg = "report" /\ cl.allow_delete THEN <<>> ELSE <<AllowDeleteCmd>>

AfterConfig(cl) == [cl EXCEPT !.allow_delete = TRUE]

\* detete_pool with the delete command issued before the listing is
\* looked at
detete_pool_delete_first(pool, cl, cfg, df1, del, df2) ==
    IF cfg = "fail"
    THEN Ended(Raise("TypeError"), <<>>, cl, 0, "fail", <<"unknown", "unknown">>)
    ELSE IF df1 # "report"
    THEN Ended(IF df1 = "fail" THEN Raise("TypeError") ELSE Raise("KeyError"),
               ConfigCmds(cl, cfg), AfterConfig(cl), 1, df1,
               <<"unknown", "unknown">>)
    ELSE IF pool \notin cl.pools
    THEN Ended(Return(PyTrue), ConfigCmds(cl, cfg) \o <<DeleteCmd(pool)>>,
               AfterConfig(cl), 1, "report", <<"absent", "unknown">>)
    ELSE IF del = "raise"
    THEN Ended(Raise("CommandFailed"), ConfigCmds(cl, cfg) \o <<DeleteCmd(pool)>>,
               AfterConfig(cl), 1, "report", <<"listed", "unknown">>)
    ELSE LET left == IF del = "removed"
                     THEN [AfterConfig(cl) EXCEPT !.pools = @ \ {pool}]
                     ELSE AfterConfig(cl)
             issued == ConfigCmds(cl, cfg) \o <<DeleteCmd(pool)>>
         IN  IF df2 # "report"
             THEN Ended(IF df2 = "fail" THEN Raise("TypeError")
                        ELSE Raise("KeyError"),
                        issued, left, 2, df2, <<"listed", "unknown">>)
             ELSE IF pool \notin left.pools
             THEN Ended(Return(PyTrue), issued, left, 2, "report",
                        <<"listed", "absent">>)
             ELSE Ended(Return(PyFalse), issued, left, 2, "report",
                        <<"listed", "listed">>)

\* detete_pool(pool) on cluster cl; cfg, df1 and df2 are how the three
\* fetches end and del what the delete command does
detete_pool(pool, cl, cfg, df1, del, df2) ==
    IF cfg = "fail"
    THEN Ended(Raise("TypeError"), <<>>, cl, 0, "fail", <<"unknown", "unknown">>)
    ELSE IF df1 # "report"
    THEN Ended(IF df1 = "fail" THEN Raise("TypeError") ELSE Raise("KeyError"),
               ConfigCmds(cl, cfg), AfterConfig(cl), 1, df1,
               <<"unknown", "unknown">>)
    ELSE IF pool \notin cl.pools
    THEN Ended(Return(PyTrue), ConfigCmds(cl, cfg), AfterConfig(cl), 1,
               "report", <<"absent", "unknown">>)
    ELSE IF del = "raise"
    THEN Ended(Raise("CommandFailed"), ConfigCmds(cl, cfg) \o <<DeleteCmd(pool)>>,
               AfterConfig(cl), 1, "report", <<"listed", "unknown">>)
    ELSE LET left == IF del = "removed"
                     THEN [AfterConfig(cl) EXCEPT !.pools = @ \ {pool}]
                     ELSE AfterConfig(cl)
             issued == ConfigCmds(cl, cfg) \o <<DeleteCmd(pool)>>
         IN  IF df2 # "report"
             THEN Ended(IF df2 = "fail" THEN Raise("TypeError")
                        ELSE Raise("KeyError"),
                        issued, left, 2, df2, <<"listed", "unknown">>)
             ELSE IF pool \notin left.pools
             THEN Ended(Return(PyTrue), issued, left, 2, "report",
                        <<"listed", "absent">>)
             ELSE Ended(Return(PyFalse), issued, left, 2, "report",
                        <<"listed", "listed">>)

\* a call of detete_pool: the first one, or a second one on the same pool
\* right after the first has returned
Call_detete_pool ==
    /\ \/ pc = "idle"
       \/ pc = "done" /\ op = "detete_pool" /\ calls = 1
    /\ calls' = calls + 1
    /\ prev_result' = result
    /\ \E pool \in Pools, listed \in SUBSET Pools, allow \in BOOLEAN,
          cfg \in FetchOutcomes, df1 \in FetchOutcomes, del \in DeleteOutcomes,
          df2 \in FetchOutcomes :
          LET cl == [pools |-> listed, allow_delete |-> allow]
              e == detete_pool(pool, cl, cfg, df1, del, df2)
          IN  /\ pc = "done" => pool = kwargs.pool /\ cl = cluster
              /\ cfg = "fail" => df1 = "fail"
              /\ (df1 # "report" \/ pool \notin listed) => del = "kept"
              /\ (del = "raise" \/ df1 # "report" \/ pool \notin listed)
                     => df2 = "fail"
              /\ kwargs' = [pool |-> pool]
              /\ cluster' = e.cluster
              /\ result' = e.result
              /\ cmds' = cmds \o e.cmds
              /\ fetches' = e.fetches
              /\ lastFetch' = e.lastFetch
              /\ observed' = e.observed
              /\ transport' = IF e.lastFetch = "fail" \/ e.result = Raise("CommandFailed")
                              THEN "fail" ELSE "ok"
    /\ op' = "detete_pool"
    /\ pc' = "done"
    /\ target' = "client"
    /\ UNCHANGED <<raw, now, cmdTime, end_time, sleeps, flag, waitOutcome, action,
                   maintVars, reweightVars, restartVars, recoveryCfg, restarted,
                   ioVars>>
    /\ UNCHANGED session

----------------------------------------------------------------------------
(* run_concurrent_io *)

\* largest obj_size argument
MaxObjSize == 4

\* bytes of the sample file each `rados put` writes: truncate -s 1M
SampleBytes == 1048576
\* the first offset of the installer task
InstallerStart == 1048576
\* what each task adds to its offset after a write
OffsetStep == 2097152

\* int(x): the fraction is dropped, towards zero
int_half(size) == IF size >= 0 THEN size \div 2 ELSE -((-size) \div 2)

\* range(int(obj_size / 2)): how many passes each task's for loop makes
Passes(size) == IF int_half(size) > 0 THEN int_half(size) ELSE 0

\* offset = offset + 2097152
next_offset_by_sample(offset) == offset + SampleBytes

next_offset(offset) == offset + OffsetStep

\* leaving the `with parallel()` block: every spawned task has ended
Joined_client_only(ts, size) == ts.client.i = Passes(size)

Joined(ts, size) ==
    /\ ts.client.i = Passes(size)
    /\ ts.installer.i = Passes(size)

\* the same call, but taking the installer node as the object's node
Call_run_concurrent_io_rebinds_node ==
    /\ pc = "idle"
    /\ op' = "run_concurrent_io"
    /\ \E size \in 0..MaxObjSize, setup \in {"ok", "fail"} :
          /\ obj_size' = size
          /\ setup = "fail" => size = 0
          /\ IF setup = "fail"
             THEN /\ transport' = "fail"
                  /\ result' = Raise("CommandFailed")
                  /\ pc' = "done"
                  /\ UNCHANGED <<tasks, cmds>>
             ELSE /\ transport' = "ok"
                  /\ cmds' = << <<"truncate", "installer">>, <<"truncate", "client">> >>
                  /\ tasks' = [client |-> [i |-> 0, offset |-> 0, failed |-> FALSE],
                               installer |-> [i |-> 0, offset |-> InstallerStart,
                                              failed |-> FALSE]]
                  /\ pc' = "spawned"
                  /\ UNCHANGED result
    /\ written' = {}
    /\ UNCHANGED <<raw, target, loopVars, action, maintVars, reweightVars,
                   restartVars, recoveryCfg, restarted, kwargs, cluster, calls,
                   prev_result>>
    /\ session' = [session EXCEPT !.node = "installer"]

\* the sample files are made, then the two tasks are spawned
Call_run_concurrent_io ==
    /\ pc = "idle"
    /\ op' = "run_concurrent_io"
    /\ \E size \in 0..MaxObjSize, setup \in {"ok", "fail"} :
          /\ obj_size' = size
          /\ setup = "fail" => size = 0
          /\ IF setup = "fail"
             THEN /\ transport' = "fail"
                  /\ result' = Raise("CommandFailed")
                  /\ pc' = "done"
                  /\ UNCHANGED <<tasks, cmds>>
             ELSE /\ transport' = "ok"
                  /\ cmds' = << <<"truncate", "installer">>, <<"truncate", "client">> >>
                  /\ tasks' = [client |-> [i |-> 0, offset |-> 0, failed |-> FALSE],
                               installer |-> [i |-> 0, offset |-> InstallerStart,
                                              failed |-> FALSE]]
                  /\ pc' = "spawned"
                  /\ UNCHANGED result
    /\ written' = {}
    /\ UNCHANGED <<raw, target, loopVars, action, maintVars, reweightVars,
                   restartVars, recoveryCfg, restarted, kwargs, cluster, calls,
                   prev_result>>
    /\ UNCHANGED session

\* one pass of a task's for loop: a put at the task's offset, which is
\* then moved on; the exit status of the put is not looked at
\* (check_status=False, check_ec=False)
rados_put(task, ok) ==
    /\ tasks[task].i < Passes(obj_size)
    /\ written' = IF ok
                  THEN written \cup {<<task, tasks[task].i, tasks[task].offset>>}
                  ELSE written
    /\ tasks' = [tasks EXCEPT ![task] = [i |-> @.i + 1,
                                         offset |-> next_offset(@.offset),
                                         failed |-> @.failed \/ ~ok]]

rados_put_client ==
    /\ pc = "spawned"
    /\ \E ok \in BOOLEAN : rados_put("client", ok)
    /\ UNCHANGED <<op, pc, result, raw, transport, target, loopVars, action,
                   maintVars, reweightVars, restartVars, recoveryCfg, cmds,
                   restarted, kwargs, cluster, calls, prev_result, obj_size>>
    /\ UNCHANGED session

rados_put_installer ==
    /\ pc = "spawned"
    /\ \E ok \in BOOLEAN : rados_put("installer", ok)
    /\ UNCHANGED <<op, pc, result, raw, transport, target, loopVars, action,
                   maintVars, reweightVars, restartVars, recoveryCfg, cmds,
                   restarted, kwargs, cluster, calls, prev_result, obj_size>>
    /\ UNCHANGED session

\* the end of the `with` block and of the method, which returns None
Join_run_concurrent_io ==
    /\ pc = "spawned"
    /\ Joined(tasks, obj_size)
    /\ result' = Return(PyNone)
    /\ pc' = "done"
    /\ UNCHANGED <<op, raw, transport, target, loopVars, action, maintVars,
                   reweightVars, restartVars, recoveryCfg, cmds, restarted,
                   extVars>>
    /\ UNCHANGED session

----------------------------------------------------------------------------
(* change_heap_profiler_state *)

\* longest osd_list argument
MaxOsdList == 3

HeapOsds == 0..(MaxOsdList - 1)

\* the osd_list arguments: each OSD id at most once
OsdLists ==
    {l \in UNION {[1..n -> HeapOsds] : n \in 0..MaxOsdList} :
        \A i, j \in 1..Len(l) : i # j => l[i] # l[j]}

HeapActions == {"start", "stop"}

HeapCmd(osd_id, act) == <<"ceph", "tell", "osd", osd_id, "heap", act>>

\* list.remove(x): the list without its first x
remove(list, x) ==
    LET k == CHOOSE i \in 1..Len(list) :
                 list[i] = x /\ \A j \in 1..(i - 1) : list[j] # x
    IN  SubSeq(list, 1, k - 1) \o SubSeq(list, k + 1, Len(list))

\* if not (osd_status == 0 or status_desc == "stopped")
NotStopped(st) == ~(st[1] = 0 \/ st[2] = "stopped")

\* the for loop over osd_list, which is the list it removes from: the
\* iterator goes on to the next index of the list as it is now
RECURSIVE HeapLoop(_, _, _, _, _, _, _)
HeapLoop(list, idx, states, act, fail_at, checked, issued) ==
    IF idx > Len(list)
    THEN [result |-> Return(<<"tuple", 0, list>>), checked |-> checked,
          cmds |-> issued]
    ELSE IF fail_at = Len(checked) + 1
    THEN \* get_daemon_status subscripts the None of a failed command
         [result |-> Raise("TypeError"), checked |-> checked, cmds |-> issued]
    ELSE IF NotStopped(states[list[idx]])
    THEN HeapLoop(list, idx + 1, states, act, fail_at,
                  Append(checked, list[idx]),
                  Append(issued, HeapCmd(list[idx], act)))
    ELSE HeapLoop(remove(list, list[idx]), idx + 1, states, act, fail_at,
                  Append(checked, list[idx]), issued)

change_heap_profiler_state(osd_list, act, states, fail_at) ==
    IF osd_list = <<>>
    THEN [result |-> Return(<<"tuple", 1, <<>> >>), checked |-> <<>>,
          cmds |-> <<>>]
    ELSE HeapLoop(osd_list, 1, states, act, fail_at, <<>>, <<>>)

Call_change_heap_profiler_state ==
    /\ pc = "idle"
    /\ \E osd_list \in OsdLists, act \in HeapActions,
          states \in [HeapOsds -> DaemonStates], fail_at \in {0, 1} :
          LET e == change_heap_profiler_state(osd_list, act, states, fail_at)
          IN  /\ \A id \in HeapOsds :
                    (\A i \in 1..Len(osd_list) : osd_list[i] # id)
                        => states[id] = <<1, "running">>
              /\ fail_at = 1 => osd_list # <<>>
              /\ kwargs' = [osd_list |-> osd_list, action |-> act]
              /\ cluster' = [osds |-> states]
              /\ result' = e.result
              /\ observed' = e.checked
              /\ cmds' = e.cmds
              /\ transport' = IF e.result.kind = "raise" THEN "fail" ELSE "ok"
    /\ op' = "change_heap_profiler_state"
    /\ pc' = "done"
    /\ UNCHANGED <<raw, target, now, cmdTime, end_time, fetches, sleeps, flag,
                   waitOutcome, lastFetch, action, maintVars, reweightVars,
                   restartVars, recoveryCfg, restarted, calls, prev_result,
                   ioVars>>
    /\ UNCHANGED session

----------------------------------------------------------------------------
(* run_scrub and run_deep_scrub *)

\* the keyword arguments: <<>> when the keyword is not passed
ScrubOsds == {<<>>, <<0>>, <<1>>}
ScrubPgids == {<<>>, <<"1.0">>}
ScrubPools == {<<>>, <<"p">>}

\* kwargs.get(key) as an `if` tests it: None, 0 and "" are false
TruthyInt(v) == v # <<>> /\ v[1] # 0
TruthyStr(v) == v # <<>> /\ v[1] # ""

\* an OSD id as the f-string prints it
format_id(id) == CASE id = 0 -> "0" [] id = 1 -> "1" [] OTHER -> "n"

\* the if/elif chain of run_scrub (kind "scrub") and run_deep_scrub
\* (kind "deep-scrub")
scrub_cmd(kind, kw) ==
    IF TruthyInt(kw.osd) THEN <<"ceph", "osd", kind, format_id(kw.osd[1])>>
    ELSE IF TruthyStr(kw.pgid) THEN <<"ceph", "pg", kind, kw.pgid[1]>>
    ELSE IF TruthyStr(kw.pool) THEN <<"ceph", "osd", "pool", kind, kw.pool[1]>>
    ELSE <<"ceph", "osd", kind, "all">>

Call_run_scrub ==
    /\ pc = "idle"
    /\ \E o \in {"run_scrub", "run_deep_scrub"}, osd \in ScrubOsds,
          pgid \in ScrubPgids, pool \in ScrubPools, tr \in {"ok", "fail"} :
          LET kw == [osd |-> osd, pgid |-> pgid, pool |-> pool]
              kind == IF o = "run_scrub" THEN "scrub" ELSE "deep-scrub"
          IN  /\ op' = o
              /\ kwargs' = kw
              /\ cmds' = <<scrub_cmd(kind, kw)>>
              /\ transport' = tr
              /\ result' = IF tr = "ok" THEN Return(PyNone)
                            ELSE Raise("CommandFailed")
    /\ pc' = "done"
    /\ target' = "client"
    /\ UNCHANGED <<raw, loopVars, action, maintVars, reweightVars, restartVars,
                   recoveryCfg, restarted, cluster, calls, prev_result, ioVars>>
    /\ UNCHANGED session

----------------------------------------------------------------------------
(* list_pools, set_pool_property, get_pool_property,                       *)
(* pool_inline_compression                                                 *)

\* seconds set_pool_property sleeps after the command
SetPropertySleep == 2

\* list_pools(): out["pools"] of `ceph df`, where out is None after a
\* failed command and {} after a blank output
list_pools(df, pools) ==
    CASE df = "fail" -> Raise("TypeError")
      [] df = "blank" -> Raise("KeyError")
      [] OTHER -> Return(pools)

\* what a method that only issues commands leaves: its result and the
\* commands it issued
Outcome(res, issued) == [result |-> res, cmds |-> issued]

PoolSetCmd(pool, props) == <<"ceph", "osd", "pool", "set", pool, props>>
PoolGetCmd(pool, props) == <<"ceph", "osd", "pool", "get", pool, props>>

\* set_pool_property without the test of the listing
set_pool_property_unchecked(pool, props, df, pools, sh) ==
    IF list_pools(df, pools).kind = "raise"
    THEN Outcome(list_pools(df, pools), <<>>)
    ELSE IF sh = "fail"
    THEN Outcome(Raise("CommandFailed"), <<PoolSetCmd(pool, props)>>)
    ELSE Outcome(Return(PyTrue), <<PoolSetCmd(pool, props)>>)

\* set_pool_property(pool, props, value); sh is how the set command ends
set_pool_property(pool, props, df, pools, sh) ==
    IF list_pools(df, pools).kind = "raise"
    THEN Outcome(list_pools(df, pools), <<>>)
    ELSE IF pool \notin pools
    THEN Outcome(Return(PyFalse), <<>>)
    ELSE IF sh = "fail"
    THEN Outcome(Raise("CommandFailed"), <<PoolSetCmd(pool, props)>>)
    ELSE Outcome(Return(PyTrue), <<PoolSetCmd(pool, props)>>)

\* get_pool_property(pool, props); out is what the get command prints,
\* decoded without the whitespace test of run_ceph_command
get_pool_property(pool, props, df, pools, sh, out) ==
    IF list_pools(df, pools).kind = "raise"
    THEN Outcome(list_pools(df, pools), <<>>)
    ELSE IF pool \notin pools
    THEN Outcome(Return(PyFalse), <<>>)
    ELSE IF sh = "fail"
    THEN Outcome(Raise("CommandFailed"), <<PoolGetCmd(pool, props)>>)
    ELSE Outcome(json_loads(out), <<PoolGetCmd(pool, props)>>)

\* the settings of pool_inline_compression, in the order of value_map
CompressionKeys ==
    <<"compression_algorithm", "compression_mode", "compression_required_ratio",
      "compression_min_blob_size", "compression_max_blob_size">>

Algorithms == {"snappy", "zlib"}

\* one set command per setting that was passed
RECURSIVE CompressionCmds(_, _, _)
CompressionCmds(pool, keys, passed) ==
    IF keys = <<>> THEN <<>>
    ELSE (IF Head(keys) \in passed THEN <<PoolSetCmd(pool, Head(keys))>> ELSE <<>>)
             \o CompressionCmds(pool, Tail(keys), passed)

\* pool_inline_compression(pool_name, **kwargs): passed is the settings
\* passed, algorithm the compression_algorithm among them; dump is how
\* `ceph osd dump` ends, and shown what it shows for the pool: "nopool"
\* (the pool is not in it), "unset" (no compression_algorithm option) or
\* the algorithm
pool_inline_compression(pool, passed, algorithm, df, pools, dump, shown) ==
    LET wanted == IF "compression_algorithm" \in passed THEN algorithm
                  ELSE "snappy"
        issued == CompressionCmds(pool, CompressionKeys, passed)
    IN  IF list_pools(df, pools).kind = "raise"
        THEN Outcome(list_pools(df, pools), <<>>)
        ELSE IF pool \notin pools
        THEN Outcome(Return(PyFalse), <<>>)
        ELSE CASE dump = "fail" -> Outcome(Raise("TypeError"), issued)
               [] dump = "blank" -> Outcome(Raise("KeyError"), issued)
               [] shown = "nopool" -> Outcome(Return(PyTrue), issued)
               [] shown = "unset" -> Outcome(Raise("KeyError"), issued)
               [] shown # wanted -> Outcome(Return(PyFalse), issued)
               [] OTHER -> Outcome(Return(PyTrue), issued)

\* what the three methods have in common: the pool asked about, the
\* listing, and the one `ceph df` fetch of list_pools
PoolCall(name, pool, pools, df, e) ==
    /\ op' = name
    /\ pc' = "done"
    /\ cluster' = [pools |-> pools]
    /\ fetches' = 1
    /\ lastFetch' = df
    /\ result' = e.result
    /\ cmds' = e.cmds
    /\ transport' = IF df = "fail" \/ e.result = Raise("CommandFailed")
                    THEN "fail" ELSE "ok"
    /\ UNCHANGED <<raw, target, cmdTime, end_time, sleeps, flag, waitOutcome,
                   action, maintVars, reweightVars, restartVars, recoveryCfg,
                   restarted, calls, prev_result, ioVars>>

Call_set_pool_property ==
    /\ pc = "idle"
    /\ \E pool \in Pools, pools \in SUBSET Pools, df \in FetchOutcomes,
          sh \in {"ok", "fail"} :
          LET e == set_pool_property(pool, "size", df, pools, sh)
          IN  /\ df # "report" => pools = {}
              /\ (df # "report" \/ pool \notin pools) => sh = "ok"
              /\ PoolCall("set_pool_property", pool, pools, df, e)
              /\ kwargs' = [pool |-> pool, props |-> "size"]
              /\ now' = IF e.result = Return(PyTrue) THEN SetPropertySleep ELSE 0
              /\ UNCHANGED observed
    /\ UNCHANGED session

Call_get_pool_property ==
    /\ pc = "idle"
    /\ \E pool \in Pools, pools \in SUBSET Pools, df \in FetchOutcomes,
          sh \in {"ok", "fail"}, out \in {<<>>, <<"x">>, EmptyDoc} :
          LET e == get_pool_property(pool, "size", df, pools, sh, out)
          IN  /\ df # "report" => pools = {}
              /\ (df # "report" \/ pool \notin pools) => sh = "ok"
              /\ (df # "report" \/ pool \notin pools \/ sh = "fail") => out = <<>>
              /\ PoolCall("get_pool_property", pool, pools, df, e)
              /\ kwargs' = [pool |-> pool, props |-> "size"]
              /\ UNCHANGED <<now, observed>>
    /\ UNCHANGED session

Call_pool_inline_compression ==
    /\ pc = "idle"
    /\ \E pool \in Pools, pools \in SUBSET Pools, df \in FetchOutcomes,
          passed \in SUBSET {CompressionKeys[i] : i \in 1..Len(CompressionKeys)},
          algorithm \in Algorithms, dump \in FetchOutcomes,
          shown \in Algorithms \cup {"nopool", "unset"} :
          LET e == pool_inline_compression(pool, passed, algorithm, df, pools,
                                           dump, shown)
          IN  /\ df # "report" => pools = {}
              /\ (df # "report" \/ pool \notin pools) => dump = "fail"
              /\ dump # "report" => shown = "nopool"
              /\ "compression_algorithm" \notin passed => algorithm = "snappy"
              /\ PoolCall("pool_inline_compression", pool, pools, df, e)
              /\ kwargs' = [pool |-> pool, passed |-> passed, algorithm |-> algorithm]
              /\ observed' = <<dump, shown>>
              /\ UNCHANGED now
    /\ UNCHANGED session

----------------------------------------------------------------------------
(* enable_email_alerts *)

\* seconds slept after the module is disabled and after it is enabled
AlertSleep == 1

\* the smtp_destination argument: the addresses passed; <<>> when the
\* keyword is not passed, is None or is an empty list
Destinations == {<<>>, <<"a@x">>, <<"a@x", "b@x">>}

\* alert_cmds, in the order of the dictionary
AlertSettings ==
    <<"smtp_host", "smtp_sender", "smtp_ssl", "smtp_port", "interval",
      "smtp_from_name">>

ModuleCmd(state) == <<"ceph", "mgr", "module", state, "alerts">>
AlertSetCmd(key) == <<"ceph", "config", "set", "mgr", "mgr/alerts", key>>
DestinationCmd(email) ==
    <<"ceph", "config", "set", "mgr", "mgr/alerts", "smtp_destination", email>>

\* the commands up to the test of smtp_destination
AlertSetupCmds ==
    <<ModuleCmd("enable")>>
        \o [i \in 1..Len(AlertSettings) |-> AlertSetCmd(AlertSettings[i])]

\* enable_email_alerts(**kwargs); send is how `ceph alerts send` ends
enable_email_alerts(smtp_destination, send) ==
    IF smtp_destination = <<>>
    THEN Outcome(Return(PyFalse), AlertSetupCmds)
    ELSE LET issued ==
                 AlertSetupCmds
                     \o [i \in 1..Len(smtp_destination) |->
                            DestinationCmd(smtp_destination[i])]
                     \o <<ModuleCmd("disable"), ModuleCmd("enable"),
                          <<"ceph", "alerts", "send">> >>
         IN  IF send = "fail" THEN Outcome(Return(PyFalse), issued)
             ELSE Outcome(Return(PyTrue), issued)

Call_enable_email_alerts ==
    /\ pc = "idle"
    /\ \E smtp_destination \in Destinations, send \in {"ok", "fail"} :
          LET e == enable_email_alerts(smtp_destination, send)
          IN  /\ smtp_destination = <<>> => send = "ok"
              /\ kwargs' = [smtp_destination |-> smtp_destination]
              /\ result' = e.result
              /\ cmds' = e.cmds
              /\ transport' = send
              /\ now' = IF smtp_destination = <<>> THEN 0 ELSE 2 * AlertSleep
    /\ op' = "enable_email_alerts"
    /\ pc' = "done"
    /\ UNCHANGED <<raw, target, cmdTime, end_time, fetches, sleeps, flag,
                   waitOutcome, observed, lastFetch, action, maintVars,
                   reweightVars, restartVars, recoveryCfg, restarted, cluster,
                   calls, prev_result, ioVars>>
    /\ UNCHANGED session

----------------------------------------------------------------------------
\* the caller takes the result; the object keeps no state of the call
Finish ==
    /\ pc = "done"
    /\ op' = "none"
    /\ pc' = "idle"
    /\ result' = NoResult
    /\ raw' = <<>>
    /\ transport' = "ok"
    /\ target' = "node"
    /\ now' = 0
    /\ cmdTime' = 0
    /\ end_time' = 0
    /\ fetches' = 0
    /\ sleeps' = 0
    /\ flag' = "unbound"
    /\ waitOutcome' = "none"
    /\ observed' = <<>>
    /\ lastFetch' = "none"
    /\ action' = "none"
    /\ retry' = 0
    /\ iteration' = 0
    /\ osd_info' = <<>>
    /\ osd_info_end' = <<>>
    /\ affected_osds' = {}
    /\ svc' = 0
    /\ daemon_services' = <<>>
    /\ daemon_map' = <<>>
    /\ cmds' = <<>>
    /\ restarted' = {}
    /\ kwargs' = <<>>
    /\ cluster' = <<>>
    /\ calls' = 0
    /\ prev_result' = NoResult
    /\ obj_size' = 0
    /\ tasks' = <<>>
    /\ written' = {}
    /\ UNCHANGED recoveryCfg
    /\ UNCHANGED session

Next ==
    \/ Call_run_ceph_command
    \/ Call_get_ceph_pg_dump
    \/ Call_run_pool_sanity_check
    \/ Iter_run_pool_sanity_check
    \/ Timeout_run_pool_sanity_check
    \/ Call_verify_reweight
    \/ Iter_verify_reweight
    \/ Timeout_verify_reweight
    \/ Call_change_osd_state
    \/ Iter_change_osd_state
    \/ Timeout_change_osd_state
    \/ Call_restart_daemon_services
    \/ Iter_restart_daemon_services
    \/ Timeout_restart_daemon_services
    \/ Elapse_restart_daemon_services
    \/ Call_host_maintenance
    \/ Iter_host_maintenance_enter
    \/ Iter_host_maintenance_exit
    \/ FallOut_host_maintenance
    \/ Call_detete_pool
    \/ Call_run_concurrent_io
    \/ rados_put_client
    \/ rados_put_installer
    \/ Join_run_concurrent_io
    \/ Call_change_heap_profiler_state
    \/ Call_run_scrub
    \/ Call_set_pool_property
    \/ Call_get_pool_property
    \/ Call_pool_inline_compression
    \/ Call_enable_email_alerts
    \/ Finish

Spec == Init /\ [][Next]_vars

\* the steps of a running wait: a pass of its loop, the loop test failing,
\* the clock running on
LoopStep ==
    \/ Iter_run_pool_sanity_check
    \/ Timeout_run_pool_sanity_check
    \/ Iter_verify_reweight
    \/ Timeout_verify_reweight
    \/ Iter_change_osd_state
    \/ Timeout_change_osd_state
    \/ Iter_restart_daemon_services
    \/ Timeout_restart_daemon_services
    \/ Elapse_restart_daemon_services
    \/ Iter_host_maintenance_enter
    \/ Iter_host_maintenance_exit
    \/ FallOut_host_maintenance

\* the operations that wait: their calls, the steps of their loops, and the
\* return to the caller
WaitNext ==
    \/ Call_run_pool_sanity_check
    \/ Call_verify_reweight
    \/ Call_change_osd_state
    \/ Call_restart_daemon_services
    \/ Call_host_maintenance
    \/ LoopStep
    \/ Finish

\* every step of a running wait changes one of these
progressVars == <<pc, fetches, iteration, now>>

\* a call that has been made goes on running: each command returns and the
\* thread is never suspended for good
LiveSpec == Init /\ [][WaitNext]_vars /\ WF_progressVars(LoopStep)

----------------------------------------------------------------------------
(* The structured parse: what the properties are stated with               *)

\* empty or whitespace only
IsBlank(s) == \A i \in 1..Len(s) : IsWs(s[i])

NonWsIdx(s) == {i \in 1..Len(s) : ~IsWs(s[i])}

SetMin(S) == CHOOSE x \in S : \A y \in S : x <= y
SetMax(S) == CHOOSE x \in S : \A y \in S : y <= x

Trim(s) ==
    IF NonWsIdx(s) = {} THEN <<>>
    ELSE SubSeq(s, SetMin(NonWsIdx(s)), SetMax(NonWsIdx(s)))

\* The JSON grammar over Chars, by the shape of the text: a number, the
\* object "D", an empty object, or an array of values separated by commas.
RECURSIVE IsJsonValue(_), IsItemList(_)
IsJsonValue(s) ==
    /\ Len(s) >= 1
    /\ \/ \A i \in 1..Len(s) : s[i] = "1"
       \/ s = <<"D">>
       \/ /\ Len(s) >= 2
          /\ s[1] = "{"
          /\ s[Len(s)] = "}"
          /\ IsBlank(SubSeq(s, 2, Len(s) - 1))
       \/ /\ Len(s) >= 2
          /\ s[1] = "["
          /\ s[Len(s)] = "]"
          /\ \/ IsBlank(SubSeq(s, 2, Len(s) - 1))
             \/ IsItemList(SubSeq(s, 2, Len(s) - 1))

IsItemList(t) ==
    \/ IsJsonValue(Trim(t))
    \/ \E k \in 1..Len(t) :
          /\ t[k] = ","
          /\ IsJsonValue(Trim(SubSeq(t, 1, k - 1)))
          /\ IsItemList(SubSeq(t, k + 1, Len(t)))

IsJsonText(s) == IsJsonValue(Trim(s))

ParsedCall == pc = "done" /\ op \in {"run_ceph_command", "get_ceph_pg_dump"}

\* C1: for every raw output that is empty or only whitespace, the
\* structured parse of run_ceph_command and of get_ceph_pg_dump returns the
\* empty document {} and never an error; "" yields {}.
C1_BlankOutputIsEmptyDoc ==
    (ParsedCall /\ transport = "ok" /\ IsBlank(raw)) => result = Return(EmptyDoc)

\* C2: a transport failure of the command run_ceph_command runs reaches the
\* caller as an error, never as a normal return value.
C2_TransportFailureSurfaced ==
    (pc = "done" /\ op = "run_ceph_command" /\ transport = "fail")
        => result.kind = "raise"

\* C3: for every raw output that is not blank and is not a JSON text,
\* run_ceph_command ends with a decode error raised to the caller and
\* returns no document.
C3_MalformedOutputRaises ==
    (pc = "done" /\ op = "run_ceph_command" /\ transport = "ok"
        /\ ~IsBlank(raw) /\ ~IsJsonText(raw))
        => result = Raise("JSONDecodeError")

C3_Witness ==
    /\ pc = "done"
    /\ op = "run_ceph_command"
    /\ transport = "ok"
    /\ raw = <<"[", "1", ",">>
    /\ result.kind = "raise"

\* the decoder accepts exactly the JSON texts
DecoderAgreesWithGrammar ==
    ParsedCall /\ op = "run_ceph_command" /\ transport = "ok" /\ ~IsBlank(raw)
        => (IsJsonText(raw) <=> result.kind = "return")

----------------------------------------------------------------------------
(* The wait loops: what the properties are stated with                     *)

WaitOps == {"run_pool_sanity_check", "verify_reweight", "change_osd_state",
            "restart_daemon_services"}

\* the predicate each loop waits for, on the state fetched last
WaitPredicate ==
    CASE op = "run_pool_sanity_check" -> observed \cap health_warns = {}
      [] op = "change_osd_state" ->
            \/ action = "stop" /\ observed = <<0, "stopped">>
            \/ action = "start" /\ observed = <<1, "running">>
      [] op = "verify_reweight" ->
            /\ observed # <<>>
            /\ \A i \in 1..Len(observed[Len(observed)]) :
                  observed[Len(observed)][i] \notin {"remapped", "backfilling"}
      [] OTHER -> FALSE

\* the clock when the loop is entered with no command time, and the
\* loop's sleep interval
WaitStart ==
    CASE op = "run_pool_sanity_check" -> PoolSanitySettle
      [] op = "change_osd_state" -> ResetFailedSleep
      [] OTHER -> 0

WaitInterval ==
    CASE op = "run_pool_sanity_check" -> PoolSanityInterval
      [] op = "change_osd_state" -> OsdStateInterval
      [] op = "verify_reweight" -> ReweightInterval
      [] OTHER -> RestartInterval

\* C4: a wait never raises because of a timeout or of the shape of the
\* observed state: when the deadline has passed, or when verify_reweight
\* was given a report whose num_pg_by_state is empty, the call ends by
\* returning False.
C4_WaitNeverRaises ==
    ( /\ pc = "done"
      /\ op \in WaitOps
      /\ \/ waitOutcome = "timeout"
         \/ op = "verify_reweight" /\ lastFetch = "report" /\ observed = <<>> )
        => result = Return(PyFalse)

C6_OneSleepPerFailedFetch ==
    ( /\ pc = "loop"
      /\ op \in WaitOps
      /\ op = "restart_daemon_services" => svc = 1 )
        => sleeps = fetches

\* C7: host_maintenance_enter returns True only if the host status it
\* observed last contains "maintenance".
C7_EnterTrueOnlyInMaintenance ==
    (pc = "done" /\ op = "host_maintenance_enter" /\ result = Return(PyTrue))
        => Contains(lower(observed), "maintenance")

\* C8: host_maintenance_exit returns True only if the host status it
\* observed last no longer shows maintenance mode.
C8_ExitTrueOnlyOutOfMaintenance ==
    (pc = "done" /\ op = "host_maintenance_exit" /\ result = Return(PyTrue))
        => ~Contains(lower(observed), "maintenance")

\* C9: for every retry >= 0, host_maintenance_enter and
\* host_maintenance_exit end by returning exactly True or False.
C9_MaintenanceReturnsBoolean ==
    (pc = "done" /\ op \in {"host_maintenance_enter", "host_maintenance_exit"})
        => result \in {Return(PyTrue), Return(PyFalse)}

\* C10: once the cluster has settled, verify_reweight returns True when
\* kb_used of every re-weighted OSD is lower than or equal to its value
\* before the re-weight, and False when kb_used of some re-weighted OSD is
\* higher than before.
C10_ReweightVerdict ==
    ( /\ pc = "done"
      /\ op = "verify_reweight"
      /\ waitOutcome = "success"
      /\ result.kind = "return" )
        => /\ (\A id \in affected_osds : osd_info_end[id] <= osd_info[id])
                  => result = Return(PyTrue)
           /\ (\E id \in affected_osds : osd_info_end[id] > osd_info[id])
                  => result = Return(PyFalse)

\* C11: restart_daemon_services returns True only if every daemon that was
\* listed for the services of the daemon type (each has a start time
\* captured before the restart) was shown by some fetch of the wait with a
\* later start time and a status description other than "stopped".
C11_TrueOnlyIfAllRestarted ==
    ( /\ pc = "done"
      /\ op = "restart_daemon_services"
      /\ result = Return(PyTrue) )
        => DOMAIN daemon_map \subseteq restarted

\* how many of the commands issued delete the pool of the call
DeleteCount ==
    Cardinality({i \in 1..Len(cmds) : cmds[i] = DeleteCmd(kwargs.pool)})

\* C12: detete_pool on a pool that the listing does not show returns True
\* and issues no delete command; a second call made right after a first
\* one that returned True returns True as well, and the two calls together
\* issue the delete command at most once; when the pool is still listed
\* after the delete command the call returns False.
C12_DeleteIdempotent ==
    (pc = "done" /\ op = "detete_pool")
        => /\ observed[1] = "absent"
                 => /\ result = Return(PyTrue)
                    /\ calls = 1 => DeleteCount = 0
                    /\ calls = 2 => DeleteCount <= 1
           /\ (calls = 2 /\ prev_result = Return(PyTrue) /\ observed[1] # "unknown")
                 => /\ result = Return(PyTrue)
                    /\ DeleteCount <= 1
           /\ observed = <<"listed", "listed">> => result = Return(PyFalse)

\* a pool is deleted by the first call and found absent by the second
C12_Witness ==
    /\ pc = "done"
    /\ op = "detete_pool"
    /\ calls = 2
    /\ prev_result = Return(PyTrue)
    /\ observed[1] = "absent"
    /\ result = Return(PyTrue)
    /\ DeleteCount = 1

\* the bytes a write covers: from its offset, the length of the sample file
Overlap(w1, w2) ==
    /\ w1[3] < w2[3] + SampleBytes
    /\ w2[3] < w1[3] + SampleBytes

\* the size of the object: the end of the write that reaches furthest
ObjectSize ==
    IF written = {} THEN 0
    ELSE LET last == CHOOSE w \in written : \A v \in written : v[3] <= w[3]
         IN  last[3] + SampleBytes

\* C13: in run_concurrent_io, whatever the order of the two tasks' writes,
\* no two writes overlap; and once the call has returned with every put
\* completed, the writes cover one range without gap from offset 0 and the
\* object's size is the sum of the lengths written.
C13_DisjointContiguousWrites ==
    op = "run_concurrent_io"
        => /\ \A w1, w2 \in written : w1 # w2 => ~Overlap(w1, w2)
           /\ ( /\ pc = "done"
                /\ result.kind = "return"
                /\ ~tasks.client.failed
                /\ ~tasks.installer.failed )
                 => /\ \A w \in written :
                          \/ w[3] = 0
                          \/ \E v \in written : v[3] + SampleBytes = w[3]
                    /\ ObjectSize = Cardinality(written) * SampleBytes

\* both tasks have written twice, the installer's last write being at the
\* highest offset
C13_Witness ==
    /\ op = "run_concurrent_io"
    /\ pc = "done"
    /\ obj_size = 4
    /\ ~tasks.client.failed
    /\ ~tasks.installer.failed
    /\ Cardinality(written) = 4
    /\ <<"installer", 1, InstallerStart + OffsetStep>> \in written

\* C14: run_concurrent_io has returned only when each of the two tasks has
\* made all the passes of its loop, so that no write is still to come.
C14_ForkJoin ==
    (op = "run_concurrent_io" /\ pc = "done" /\ result.kind = "return")
        => \A task \in {"client", "installer"} :
              /\ tasks[task].i = Passes(obj_size)
              /\ ~tasks[task].failed
                    => \A k \in 0..(Passes(obj_size) - 1) :
                          \E w \in written : w[1] = task /\ w[2] = k

\* the call has returned after two writes of each task
C14_Witness ==
    /\ op = "run_concurrent_io"
    /\ pc = "done"
    /\ result = Return(PyNone)
    /\ tasks.client.i = 2
    /\ tasks.installer.i = 2

\* the OSDs of the osd_list argument that the cluster shows running
FoundRunning(id) == NotStopped(cluster.osds[id])

\* C15: change_heap_profiler_state with a non-empty OSD list checks the
\* status of every OSD of the list, issues the heap command to exactly the
\* OSDs found running, and returns (0, L) with L the OSDs of the list found
\* running, in the order of the list.
C15_HeapProfilerRunningOsds ==
    ( /\ pc = "done"
      /\ op = "change_heap_profiler_state"
      /\ kwargs.osd_list # <<>>
      /\ result.kind = "return" )
        => LET L == SelectSeq(kwargs.osd_list, FoundRunning)
           IN  /\ observed = kwargs.osd_list
               /\ cmds = [i \in 1..Len(L) |-> HeapCmd(L[i], kwargs.action)]
               /\ result = Return(<<"tuple", 0, L>>)

ScrubKind == IF op = "run_scrub" THEN "scrub" ELSE "deep-scrub"

\* C16: run_scrub and run_deep_scrub, when an OSD id is passed (0
\* included), issue the scrub command of that OSD and nothing else; the
\* "scrub all" command is issued only when none of osd, pgid and pool is
\* passed.
C16_ScrubTargetsPassedOsd ==
    (pc = "done" /\ op \in {"run_scrub", "run_deep_scrub"})
        => /\ kwargs.osd # <<>>
                 => cmds = << <<"ceph", "osd", ScrubKind, format_id(kwargs.osd[1])>> >>
           /\ cmds = << <<"ceph", "osd", ScrubKind, "all">> >>
                 => kwargs.osd = <<>> /\ kwargs.pgid = <<>> /\ kwargs.pool = <<>>

\* C17: change_osd_state with action "stop" on an OSD first observed
\* stopped, or with action "start" on an OSD first observed running,
\* returns True and issues neither `systemctl reset-failed` nor
\* `systemctl <action>`.
C17_NoCommandWhenAlreadyInState ==
    ( /\ op = "change_osd_state"
      /\ pc \in {"loop", "done"}
      /\ fetches = 0
      /\ observed # <<>>
      /\ \/ action = "stop" /\ observed[2] = "stopped"
         \/ action = "start" /\ observed[2] = "running" )
        => /\ pc = "done"
           /\ result = Return(PyTrue)
           /\ cmds = <<>>

\* a stop asked of an OSD that is stopped already
C17_Witness ==
    /\ op = "change_osd_state"
    /\ pc = "done"
    /\ action = "stop"
    /\ fetches = 0
    /\ observed = <<0, "stopped">>
    /\ result = Return(PyTrue)
    /\ cmds = <<>>

\* C18: the verdict a wait gives on a fetched snapshot depends on the
\* snapshot only: in every state of a wait, whatever snapshot is fetched
\* next gets the verdict it would get with nothing recorded before it (in
\* verify_reweight with flag not yet assigned, in restart_daemon_services
\* with success as it is before any service is checked).
C18_VerdictFromSnapshotOnly ==
    /\ (op = "verify_reweight" /\ pc = "loop")
          => \A entries \in PgLists :
                FlagAfterEntries(entries, flag)
                    = FlagAfterEntries(entries, "unbound")
    /\ (op = "restart_daemon_services" /\ pc = "loop")
          => \A entries \in DaemonLists :
                CheckEntries(entries, daemon_map, flag)
                    = CheckEntries(entries, daemon_map, "False")

PoolOps == {"set_pool_property", "get_pool_property", "pool_inline_compression"}

\* C19: set_pool_property, get_pool_property and pool_inline_compression
\* called with a pool that the listing does not show return False, issue
\* no `ceph osd pool set` or `ceph osd pool get` command, and fetch the
\* listing once only.
C19_UnknownPoolRejected ==
    ( /\ pc = "done"
      /\ op \in PoolOps
      /\ lastFetch = "report"
      /\ kwargs.pool \notin cluster.pools )
        => /\ result = Return(PyFalse)
           /\ cmds = <<>>
           /\ fetches = 1

\* a property asked to be set on a pool that is not listed, another pool
\* being listed
C19_Witness ==
    /\ pc = "done"
    /\ op = "set_pool_property"
    /\ lastFetch = "report"
    /\ kwargs.pool = "p"
    /\ cluster.pools = {"q"}
    /\ result = Return(PyFalse)
    /\ cmds = <<>>

\* C20: enable_email_alerts called without any smtp_destination returns
\* False having issued no command: the alerts module is not enabled and no
\* mgr/alerts setting is made.
C20_NoDestinationNoCommand ==
    ( /\ pc = "done"
      /\ op = "enable_email_alerts"
      /\ kwargs.smtp_destination = <<>> )
        => /\ result = Return(PyFalse)
           /\ cmds = <<>>

\* C21: no operation reassigns the session state of the object: after any
\* sequence of operations node, ceph_cluster, client and rhbuild are the
\* values __init__ set
C21_SessionNeverReassigned == session = SessionAtInit

\* two operations have run on the object, one after the other
C21_Witness ==
    /\ calls = 2
    /\ pc = "done"
    /\ session = SessionAtInit

\* the states a placement-group entry must be free of
RecoveringStates == {"remapped", "backfilling"}

\* C23: verify_reweight's wait ends with success only on a report in which
\* every entry of num_pg_by_state, at any position of the list, is free of
\* the states remapped and backfilling
C23_SuccessOnlyWhenEveryEntryClean ==
    ( /\ op = "verify_reweight"
      /\ pc = "done"
      /\ waitOutcome = "success" )
        => \A e \in 1..Len(observed) :
              \A i \in 1..Len(observed[e]) :
                 observed[e][i] \notin RecoveringStates

MaintenanceOps == {"host_maintenance_enter", "host_maintenance_exit"}

\* the last status check reported the requested state
MaintenanceCheckPassed ==
    /\ iteration >= 1
    /\ \/ op = "host_maintenance_enter" /\ check_host_status(observed, "maintenance")
       \/ op = "host_maintenance_exit" /\ check_host_status(observed, "None")

\* C24: host_maintenance_enter and host_maintenance_exit issue the
\* maintenance command at most `retry` times, for every retry >= 0, and
\* issue no further command once a status check has reported the requested
\* state
C24_AtMostRetryCommands ==
    op \in MaintenanceOps
        => /\ Len(cmds) <= retry
           /\ MaintenanceCheckPassed => pc = "done"

\* C22: a transport failure of a fetch inside a wait loop aborts the wait at
\* once: the call has ended (no further fetch or sleep can follow), the
\* failure itself is what is raised to the caller, and no success or
\* timeout result is returned
C22_FetchFailureAbortsWait ==
    (op \in WaitOps /\ lastFetch = "fail")
        => /\ pc = "done"
           /\ result = Raise("CommandFailed")
           /\ waitOutcome \notin {"success", "timeout"}

\* what the loops do on a failed fetch: the call has ended with some
\* exception raised and with neither success nor timeout
FetchFailureEndsWaitWithSomeError ==
    (op \in WaitOps /\ lastFetch = "fail")
        => /\ pc = "done"
           /\ result.kind = "raise"
           /\ waitOutcome = "raise"

LoopOps == WaitOps \cup MaintenanceOps

=============================================================================
